---- MODULE Spec2Model ----
(***************************************************************************)
(* Model of src/dep.py: the Streamlit testing console of the doctor        *)
(* recommendation orchestration API.                                       *)
(*                                                                         *)
(* One action of the model is one user interaction: the script run that    *)
(* the interaction triggers (main() from top to bottom) together with the  *)
(* runs that st.rerun() chains after it.  A button or chat_input value is  *)
(* delivered only to the run its click triggered; a run started by         *)
(* st.rerun() sees no trigger.  The widgets a user can operate are the     *)
(* ones the script renders for the current session state.                  *)
(*                                                                         *)
(* JSON values are tagged records.  A Python str is either a plain text    *)
(* (tag "str") or the text json.dumps produces for a value (tag "jstr");   *)
(* json.loads succeeds exactly on the latter.                              *)
(***************************************************************************)
EXTENDS Integers, Sequences, FiniteSets, TLC

(***************************************************************************)
(* Bounds                                                                  *)
(***************************************************************************)
MaxTurns == 3
MaxResets == 1

(***************************************************************************)
(* JSON values and Python strings                                          *)
(***************************************************************************)
Null == [t |-> "null"]
Bool(b) == [t |-> "bool", b |-> b]
Num(n) == [t |-> "num", n |-> n]
Str(s) == [t |-> "str", s |-> s]
List(l) == [t |-> "list", l |-> l]
Dict(d) == [t |-> "dict", d |-> d]

\* json.dumps(v): the text of v, a str that json.loads turns back into v
json_dumps(v) == [t |-> "jstr", v |-> v]

IsStr(v) == v.t \in {"str", "jstr"}
IsDict(v) == v.t = "dict"
IsList(v) == v.t = "list"

\* json.loads(x) raises JSONDecodeError on a text that is not JSON
json_loads_ok(x) == x.t = "jstr"
json_loads(x) == x.v

\* dict.get(key): None when the key is missing
Get(dv, key) == IF key \in DOMAIN dv.d THEN dv.d[key] ELSE Null

\* Python truthiness of a JSON value
Truthy(v) ==
  CASE v.t = "null" -> FALSE
    [] v.t = "bool" -> v.b
    [] v.t = "num" -> v.n # 0
    [] v.t = "str" -> v.s # ""
    [] v.t = "jstr" -> TRUE
    [] v.t = "list" -> v.l # <<>>
    [] v.t = "dict" -> DOMAIN v.d # {}

\* value in (None, "", [], {})
IsEmptyValue(v) ==
  \/ v.t = "null"
  \/ v.t = "str" /\ v.s = ""
  \/ v.t = "list" /\ v.l = <<>>
  \/ v.t = "dict" /\ DOMAIN v.d = {}

\* str.strip() on the plain texts the model uses
Strip(s) ==
  CASE s \in {" ", "  "} -> ""
    [] s = " u2 " -> "u2"
    [] s = "u3  " -> "u3"
    [] OTHER -> s

\* str.lower() on the plain texts the model uses
Lower(s) ==
  CASE s = "END" -> "end"
    [] s = "End" -> "end"
    [] s = "Complete" -> "complete"
    [] s = "COMPLETED" -> "completed"
    [] OTHER -> s

\* x.strip().startswith("{") for a str x
StartsWithBrace(x) ==
  IF x.t = "jstr" THEN IsDict(x.v) ELSE x.s \in {"{", "{not json"}

(***************************************************************************)
(* _normalize_nested_json                                                  *)
(*                                                                         *)
(* A value computed by one step and read by the next is passed as an       *)
(* operator argument throughout the module.                                *)
(***************************************************************************)
Unwrapped(value) == [current |-> value, continue |-> TRUE]
NotUnwrapped(value) == [current |-> value, continue |-> FALSE]

\* the 'isinstance(current, dict)' block of one pass
UnwrapDict(current) ==
  IF IsStr(Get(current, "response")) /\ json_loads_ok(Get(current, "response"))
  THEN Unwrapped(json_loads(Get(current, "response")))
  ELSE IF /\ IsStr(Get(current, "answer"))
          /\ StartsWithBrace(Get(current, "answer"))
          /\ json_loads_ok(Get(current, "answer"))
       THEN Unwrapped(json_loads(Get(current, "answer")))
       ELSE NotUnwrapped(current)

UnwrapValue(current) ==
  IF IsDict(current) THEN UnwrapDict(current) ELSE NotUnwrapped(current)

\* one pass of the for loop: the new value and whether the loop continues
UnwrapPass(current) ==
  IF IsStr(current)
  THEN IF json_loads_ok(current) THEN UnwrapValue(json_loads(current))
       ELSE NotUnwrapped(current)
  ELSE UnwrapValue(current)

RECURSIVE UnwrapLoop(_, _)
\* mutation of UnwrapNext: the loop goes on after a pass that did not unwrap
UnwrapNext_mut(pass, passes) == UnwrapLoop(pass.current, passes - 1)

\* 'continue' goes to the next pass, 'break' leaves the loop
UnwrapNext(pass, passes) ==
  IF pass.continue THEN UnwrapLoop(pass.current, passes - 1) ELSE pass.current

UnwrapLoop(current, passes) ==
  IF passes = 0 THEN current ELSE UnwrapNext(UnwrapPass(current), passes)

UnwrapPasses == 3

_normalize_nested_json(payload) == UnwrapLoop(payload, UnwrapPasses)

(***************************************************************************)
(* _prepare_response_content                                               *)
(***************************************************************************)
CanonicalItems ==
  << "answer", "question_type", "mcq_question", "mcq_options",
     "booking_context", "assessment_progress", "recommendations",
     "next_steps", "sources", "success", "treatment_plan",
     "additional_recommendations", "warnings", "products", "lab_tests",
     "chat_summary" >>

\* _add(key): copy data[key] into payload unless it is None, "", [] or {}
_add(payload, data, key) ==
  IF IsEmptyValue(Get(data, key)) THEN payload
  ELSE (key :> Get(data, key)) @@ payload

\* isinstance(data.get(item), (dict, list)) and not data.get(item)
IsEmptyContainer(v) == (IsDict(v) \/ IsList(v)) /\ ~Truthy(v)

RECURSIVE AddItems(_, _, _)
AddItems(payload, data, i) ==
  IF i > Len(CanonicalItems) THEN payload
  ELSE IF IsEmptyContainer(Get(data, CanonicalItems[i]))
       THEN AddItems(payload, data, i + 1)
       ELSE AddItems(_add(payload, data, CanonicalItems[i]), data, i + 1)

\* the canonical items, then the legacy keys status and response
ProjectFields(data) ==
  _add(_add(AddItems(<<>>, data, 1), data, "status"), data, "response")

\* if not payload and "response" in data: a scalar response is kept
FallbackResponse(data, payload) ==
  IF /\ DOMAIN payload = {}
     /\ "response" \in DOMAIN data.d
     /\ ~(data.d["response"].t = "null"
          \/ (data.d["response"].t = "str" /\ data.d["response"].s = ""))
  THEN ("response" :> data.d["response"]) @@ payload
  ELSE payload

\* if not payload and "answer" in data
FallbackAnswer(data, payload) ==
  IF DOMAIN payload = {} /\ "answer" \in DOMAIN data.d
  THEN ("answer" :> data.d["answer"]) @@ payload
  ELSE payload

\* if not payload: json.dumps(data), else json.dumps(payload)
DumpPayload(data, payload) ==
  IF DOMAIN payload = {} THEN json_dumps(data) ELSE json_dumps(Dict(payload))

RECURSIVE _prepare_response_content(_)
PrepareProjected(data, payload) ==
  IF /\ DOMAIN payload = {}
     /\ "response" \in DOMAIN data.d
     /\ (IsDict(data.d["response"]) \/ IsList(data.d["response"]))
  THEN _prepare_response_content(data.d["response"])
  ELSE DumpPayload(data, FallbackAnswer(data, FallbackResponse(data, payload)))

_prepare_response_content(data) ==
  IF IsStr(data) THEN data
  ELSE IF ~IsDict(data) THEN json_dumps(data)
  ELSE PrepareProjected(data, ProjectFields(data))

(***************************************************************************)
(* The remote service: what one POST can meet                              *)
(***************************************************************************)
ReplyAnswer == Dict("answer" :> Str("hello"))

ReplyMcq ==
  Dict(("question_type" :> Str("mcq")) @@ ("mcq_question" :> Str("Pick one"))
       @@ ("mcq_options" :> List(<<Str("A"), Str("B")>>)))

ReplyEnd == Dict(("answer" :> Str("bye")) @@ ("status" :> Str("END")))

Replies == {ReplyAnswer, ReplyMcq, ReplyEnd}

\* a response of the server, or a network failure of requests.post
ServerBehaviours ==
  {[kind |-> "http", status |-> 200, body |-> r, text |-> ""] : r \in Replies}
  \cup {[kind |-> "http", status |-> 500, body |-> Null, text |-> "oops"],
        [kind |-> "exception", status |-> 0, body |-> Null, text |-> "timeout"]}

\* the body of a response that is not JSON text
NotJson == [t |-> "notjson"]

\* {"success": True, "data": ...} and {"success": False, "error": ...}
Success(data) == [success |-> TRUE, data |-> data, error |-> ""]
Failure(error) == [success |-> FALSE, data |-> Null, error |-> error]

\* the call does not return: the exception leaves make_api_request
Raised(class) == [raised |-> class]

\* resp.json() on a body that is not JSON raises the JSONDecodeError of the
\* installed requests library: a RequestException since requests 2.27, a
\* plain ValueError before; only the former is caught
json(net) ==
  IF net.body # NotJson THEN Success(net.body)
  ELSE IF net.raises = "RequestException"
       THEN Failure("Request failed: " \o net.text)
       ELSE Raised(net.raises)

make_api_request(net) ==
  IF net.kind = "exception" THEN Failure("Request failed: " \o net.text)
  ELSE IF net.status = 200 THEN json(net)
  ELSE Failure("HTTP " \o ToString(net.status) \o ": " \o net.text)

\* the most calls one interaction makes, hence the server behaviours it draws
NetLen == 2
ServerDown ==
  [i \in 1..NetLen |-> [kind |-> "http", status |-> 500, body |-> Null,
                          text |-> "oops"]]

(***************************************************************************)
(* Session state (st.session_state) and what one interaction produced      *)
(***************************************************************************)
VARIABLES
  keys,              \* the keys present in st.session_state
  session_id, user_id,
  ask_history, booking_history, post_history,
  post_ctx, current_slot_id,
  dep_selected_mode,
  uuids,             \* number of uuid.uuid4() values drawn so far
  calls,             \* the make_api_request calls of the last interaction
  alerts,            \* st.warning / st.error / st.success it showed
  arg,               \* the value a function is applied to on its own
  ret                \* what that function returned

vars == << keys, session_id, user_id, ask_history, booking_history,
           post_history, post_ctx, current_slot_id, dep_selected_mode,
           uuids, calls, alerts, arg, ret >>

None == [none |-> TRUE]

Turn(role, content) == [role |-> role, content |-> content]

\* mutation of AppendTurn: the new turn replaces the log
AppendTurn_mut(history, turn) == <<turn>>

\* history.append(turn)
AppendTurn(history, turn) == Append(history, turn)

\* the session as one value; rerun is set when st.rerun() ended the run
Session ==
  [keys |-> keys, session_id |-> session_id, user_id |-> user_id,
   ask_history |-> ask_history, booking_history |-> booking_history,
   post_history |-> post_history, post_ctx |-> post_ctx,
   current_slot_id |-> current_slot_id,
   dep_selected_mode |-> dep_selected_mode, uuids |-> uuids,
   calls |-> <<>>, alerts |-> {}, rerun |-> FALSE]

Has(s, key) == key \in s.keys

\* st.session_state.get("post_ctx") is not None
PostCtxSet(s) == Has(s, "post_ctx") /\ s.post_ctx # None

Alert(s, level, text) ==
  [s EXCEPT !.alerts = @ \cup {[level |-> level, text |-> text]}]

\* st.rerun()
Rerun(s) == [s EXCEPT !.rerun = TRUE]

\* make_api_request(payload) as the k-th call of the interaction
ResultOf(s, net) == make_api_request(net[Len(s.calls) + 1])

\* the call is recorded with the place it was made from, the page that made
\* it and whether it succeeded
Issue(s, origin, net, payload) ==
  [s EXCEPT !.calls = Append(@, [origin |-> origin,
                                  mode |-> s.dep_selected_mode,
                                  payload |-> payload,
                                  success |-> ResultOf(s, net).success])]

\* {"session_id": ..., "user_id": ...}, the start of every payload
Ids(s) == ("session_id" :> s.session_id) @@ ("user_id" :> s.user_id)

(***************************************************************************)
(* reset_session_ids_and_state and ensure_ids_once                         *)
(***************************************************************************)
\* mutation of ResetKeys: the post-consultation context survives the reset
ResetKeys_mut == {"ask_history", "booking_history", "post_history",
                  "current_slot_id"}

ResetKeys == {"ask_history", "booking_history", "post_history", "post_ctx",
              "current_slot_id"}

\* a deleted key reads as its empty value until the page sets it again
reset_session_ids_and_state(s) ==
  [s EXCEPT !.session_id = s.uuids + 1,
            !.user_id = s.uuids + 2,
            !.uuids = s.uuids + 2,
            !.keys = @ \ ResetKeys,
            !.ask_history = IF "ask_history" \in ResetKeys THEN <<>> ELSE @,
            !.booking_history =
               IF "booking_history" \in ResetKeys THEN <<>> ELSE @,
            !.post_history = IF "post_history" \in ResetKeys THEN <<>> ELSE @,
            !.post_ctx = IF "post_ctx" \in ResetKeys THEN None ELSE @,
            !.current_slot_id =
               IF "current_slot_id" \in ResetKeys THEN "" ELSE @,
            !.rerun = TRUE]

\* mutation of EnsureSessionId: a new session_id on every run
EnsureSessionId_mut(s) ==
  [s EXCEPT !.session_id = s.uuids + 1, !.uuids = s.uuids + 1,
            !.keys = @ \cup {"session_id"}]

\* if "session_id" not in st.session_state
EnsureSessionId(s) ==
  IF Has(s, "session_id") THEN s
  ELSE [s EXCEPT !.session_id = s.uuids + 1, !.uuids = s.uuids + 1,
                 !.keys = @ \cup {"session_id"}]

EnsureUserId(s) ==
  IF Has(s, "user_id") THEN s
  ELSE [s EXCEPT !.user_id = s.uuids + 1, !.uuids = s.uuids + 1,
                 !.keys = @ \cup {"user_id"}]

ensure_ids_once(s) == EnsureUserId(EnsureSessionId(s))

(***************************************************************************)
(* render_mcq_if_present                                                   *)
(***************************************************************************)
\* parsed.get("mcq_options") or [], for the dict parsed
OptionsOf(parsed) ==
  IF Get(parsed, "question_type") # Str("mcq") THEN <<>>
  ELSE IF Truthy(Get(parsed, "mcq_options")) /\ IsList(Get(parsed, "mcq_options"))
       THEN Get(parsed, "mcq_options").l
       ELSE <<>>

ParsedOptions(parsed) == IF IsDict(parsed) THEN OptionsOf(parsed) ELSE <<>>

\* the options of the picker rendered for raw_content; <<>> when none is
McqOptions(raw_content) == ParsedOptions(_normalize_nested_json(raw_content))

\* parsed.get("mcq_question") or "Please select an option:"
QuestionOf(parsed) ==
  IF Truthy(Get(parsed, "mcq_question")) THEN Get(parsed, "mcq_question")
  ELSE Str("Please select an option:")

McqQuestion(raw_content) == QuestionOf(_normalize_nested_json(raw_content))

\* options.index(selected)
IndexOf(options, selected) ==
  CHOOSE i \in 1..Len(options) :
    options[i] = selected /\ \A j \in 1..(i - 1) : options[j] # selected

\* return value of render_mcq_if_present
McqHandled(raw_content) == McqOptions(raw_content) # <<>>

\* the value of the radio: the option at position pos (0: nothing selected)
Selected(options, pos) == IF pos = 0 THEN Null ELSE options[pos]

\* the log the user's answer is appended to
McqUserTarget(s, slot_id) ==
  IF slot_id # "" /\ Has(s, "booking_history") THEN "booking"
  ELSE IF PostCtxSet(s) /\ Has(s, "post_history") THEN "post"
  ELSE IF Has(s, "ask_history") THEN "ask"
  ELSE "none"

McqAppendUser(s, target, user_msg) ==
  CASE target = "booking" ->
         [s EXCEPT !.booking_history = AppendTurn(@, user_msg)]
    [] target = "post" -> [s EXCEPT !.post_history = AppendTurn(@, user_msg)]
    [] target = "ask" -> [s EXCEPT !.ask_history = AppendTurn(@, user_msg)]
    [] OTHER -> s

McqBase(s, options, selected, mcq_question) ==
  Ids(s) @@ ("input" :> selected) @@ ("mcq_selected_option" :> selected)
  @@ ("mcq_selected_index" :> IndexOf(options, selected) - 1)
  @@ ("mcq_question" :> mcq_question)

\* if slot_id: payload["slot_id"] = slot_id
McqPayload(s, options, selected, mcq_question, slot_id) ==
  IF slot_id # ""
  THEN ("slot_id" :> slot_id) @@ McqBase(s, options, selected, mcq_question)
  ELSE McqBase(s, options, selected, mcq_question)

McqReplyBooking(s, msg) ==
  IF Has(s, "current_slot_id") /\ Has(s, "booking_history")
  THEN [s EXCEPT !.booking_history = AppendTurn(@, msg)] ELSE s

McqReplyPost(s, msg) ==
  IF PostCtxSet(s) /\ Has(s, "post_history")
  THEN [s EXCEPT !.post_history = AppendTurn(@, msg)] ELSE s

\* the reply goes to the booking log and to the post log, each if present
McqAppendReply(s, msg) == McqReplyPost(McqReplyBooking(s, msg), msg)

McqResult(s, result) ==
  IF result.success
  THEN Rerun(McqAppendReply(
               s, Turn("assistant", _prepare_response_content(result.data))))
  ELSE Alert(s, "error", result.error)

McqSend(s, payload, net) ==
  McqResult(Issue(s, "mcq", net, payload), ResultOf(s, net))

McqSubmitted(s, options, selected, mcq_question, slot_id, net) ==
  IF ~Truthy(selected)
  THEN Alert(s, "warning", "Please select an option before submitting.")
  ELSE McqSend(McqAppendUser(s, McqUserTarget(s, slot_id),
                             Turn("user", selected)),
               McqPayload(s, options, selected, mcq_question, slot_id), net)

\* the Submit Answer click on the picker of raw_content; pos is the radio
\* position chosen (0: nothing selected)
McqSubmitClick(s, raw_content, slot_id, pos, net) ==
  McqSubmitted(s, McqOptions(raw_content),
               Selected(McqOptions(raw_content), pos),
               McqQuestion(raw_content), slot_id, net)

(***************************************************************************)
(* User interactions.  A field that does not belong to the interaction     *)
(* keeps its NoEvent value.                                                *)
(***************************************************************************)
NoEvent ==
  [kind |-> "rerender", mode |-> "", slot_id |-> "", text |-> "",
   notes |-> "", idx |-> 0, pos |-> 0, lines |-> <<>>]

\* the value a chat_input returns to the run: the text submitted to it, or
\* nothing when the run was triggered by something else
ChatInput(ev, kind) == IF ev.kind = kind THEN ev.text ELSE ""

\* {"role": "assistant", "content": response_text}
ReplyTurn(result) ==
  Turn("assistant", _prepare_response_content(result.data))

\* {"role": "assistant", "content": f"Error: {err}"}
ErrorTurn(result) == Turn("assistant", Str("Error: " \o result.error))

(***************************************************************************)
(* ask_mode                                                                *)
(***************************************************************************)
AskInitHistory(s) ==
  IF Has(s, "ask_history") THEN s
  ELSE [s EXCEPT !.keys = @ \cup {"ask_history"}, !.ask_history = <<>>]

AskResult(s, result) ==
  IF result.success
  THEN [s EXCEPT !.ask_history = AppendTurn(@, ReplyTurn(result))]
  ELSE Alert([s EXCEPT !.ask_history = AppendTurn(@, ErrorTurn(result))],
             "error", result.error)

AskPayload(s, prompt) == Ids(s) @@ ("input" :> Str(prompt))

AskSend(s, payload, net) ==
  AskResult(Issue(s, "ask_text", net, payload), ResultOf(s, net))

AskChatInput(s, prompt, net) ==
  IF prompt = "" THEN s
  ELSE AskSend([s EXCEPT !.ask_history =
                           AppendTurn(@, Turn("user", Str(prompt)))],
               AskPayload(s, prompt), net)

ask_mode(s, ev, net) ==
  AskChatInput(AskInitHistory(s), ChatInput(ev, "ask_text"), net)

(***************************************************************************)
(* booking_chat_mode                                                       *)
(***************************************************************************)
TerminalWords == {"end", "complete", "completed"}

\* isinstance(progress, str) and progress.lower() in {...}
IsTerminalProgress(progress) ==
  progress.t = "str" /\ Lower(progress.s) \in TerminalWords

\* progress = parsed.get("assessment_progress") or parsed.get("status")
IsTerminalReply(parsed) ==
  IF Truthy(Get(parsed, "assessment_progress"))
  THEN IsTerminalProgress(Get(parsed, "assessment_progress"))
  ELSE IsTerminalProgress(Get(parsed, "status"))

\* what the parsed last reply leaves of show_free_input
FreeInputAfter(parsed) ==
  IF ~IsDict(parsed) THEN TRUE
  ELSE ~(Get(parsed, "question_type") = Str("mcq") \/ IsTerminalReply(parsed))

\* show_free_input as computed from the booking history
show_free_input(history) ==
  IF history = <<>> THEN TRUE
  ELSE IF history[Len(history)].role # "assistant" THEN TRUE
  ELSE FreeInputAfter(_normalize_nested_json(history[Len(history)].content))

\* mutation of BootstrapPayload: the call carries an empty 'input'
BootstrapPayload_mut(s) ==
  Ids(s) @@ ("slot_id" :> s.current_slot_id) @@ ("input" :> Str(""))

\* the payload of the automatic call: no 'input' key at all
BootstrapPayload(s) == Ids(s) @@ ("slot_id" :> s.current_slot_id)

BootstrapResult(s, result) ==
  IF result.success
  THEN Rerun([s EXCEPT !.booking_history = AppendTurn(@, ReplyTurn(result))])
  ELSE Alert(s, "error", result.error)

\* the automatic call on an empty history
BookingBootstrap(s, net) ==
  BootstrapResult(Issue(s, "booking_bootstrap", net, BootstrapPayload(s)),
                  ResultOf(s, net))

\* the history loop: only the picker whose Submit Answer was clicked acts
BookingRenderHistory(s, ev, net) ==
  IF /\ ev.kind = "mcq"
     /\ ev.idx \in 1..Len(s.booking_history)
     /\ s.booking_history[ev.idx].role = "assistant"
     /\ McqHandled(s.booking_history[ev.idx].content)
  THEN McqSubmitClick(s, s.booking_history[ev.idx].content,
                      s.current_slot_id, ev.pos, net)
  ELSE s

IsTerminalContent(parsed) == IsDict(parsed) /\ IsTerminalReply(parsed)

\* the completion notice shown while show_free_input is computed
BookingNotice(s) ==
  IF /\ s.booking_history # <<>>
     /\ s.booking_history[Len(s.booking_history)].role = "assistant"
     /\ IsTerminalContent(_normalize_nested_json(
                            s.booking_history[Len(s.booking_history)].content))
  THEN Alert(s, "success",
             "Pre-consultation is complete. Summary has been saved.")
  ELSE s

BookingTextResult(s, result) ==
  IF result.success
  THEN [s EXCEPT !.booking_history = AppendTurn(@, ReplyTurn(result))]
  ELSE Alert([s EXCEPT !.booking_history = AppendTurn(@, ErrorTurn(result))],
             "error", result.error)

BookingTextPayload(s, prompt) ==
  Ids(s) @@ ("input" :> Str(prompt)) @@ ("slot_id" :> s.current_slot_id)

BookingTextSend(s, payload, net) ==
  BookingTextResult(Issue(s, "booking_text", net, payload), ResultOf(s, net))

BookingChatInput(s, prompt, net) ==
  IF ~show_free_input(s.booking_history) \/ prompt = "" THEN s
  ELSE BookingTextSend([s EXCEPT !.booking_history =
                                   AppendTurn(@, Turn("user", Str(prompt)))],
                       BookingTextPayload(s, prompt), net)

\* the chat_input at the end of the booking page
BookingFreeText(s, ev, net) ==
  BookingChatInput(s, ChatInput(ev, "booking_text"), net)

BookingInitHistory(s) ==
  IF Has(s, "booking_history") THEN s
  ELSE [s EXCEPT !.keys = @ \cup {"booking_history"},
                 !.booking_history = <<>>]

\* after the history loop, unless a picker ended the run with st.rerun()
BookingAfterHistory(s, ev, net) ==
  IF s.rerun THEN s ELSE BookingFreeText(BookingNotice(s), ev, net)

\* after the automatic call, unless it ended the run with st.rerun()
BookingAfterBootstrap(s, ev, net) ==
  IF s.rerun THEN s
  ELSE BookingAfterHistory(BookingRenderHistory(s, ev, net), ev, net)

\* the part of the page shown once a slot id is set
BookingChat(s, ev, net) ==
  IF s.booking_history = <<>>
  THEN BookingAfterBootstrap(BookingBootstrap(s, net), ev, net)
  ELSE BookingAfterBootstrap(s, ev, net)

BookingPage(s, ev, net) ==
  IF ev.kind = "set_slot" /\ ev.slot_id # ""
  THEN Rerun([s EXCEPT !.current_slot_id = ev.slot_id,
                       !.keys = @ \cup {"current_slot_id"}])
  ELSE IF ~(Has(s, "current_slot_id") /\ s.current_slot_id # "") THEN s
  ELSE BookingChat(s, ev, net)

booking_chat_mode(s, ev, net) == BookingPage(BookingInitHistory(s), ev, net)

(***************************************************************************)
(* upload_urls_mode                                                        *)
(***************************************************************************)
\* mutation of StripLines: the lines are trimmed but blank ones are kept
RECURSIVE StripLines_mut(_)
StripLines_mut(lines) ==
  IF lines = <<>> THEN <<>>
  ELSE <<Strip(Head(lines))>> \o StripLines_mut(Tail(lines))

\* [u.strip() for u in urls_text.splitlines() if u.strip()], for the lines
\* urls_text.splitlines() gives
RECURSIVE StripLines(_)
StripLines(lines) ==
  IF lines = <<>> THEN <<>>
  ELSE IF Strip(Head(lines)) = "" THEN StripLines(Tail(lines))
  ELSE <<Strip(Head(lines))>> \o StripLines(Tail(lines))

UploadPayload(s, file_urls) == Ids(s) @@ ("file_urls" :> file_urls)

\* nothing is shown when the call fails
UploadResult(s, result) ==
  IF result.success THEN Alert(s, "success", "Files processed successfully!")
  ELSE s

UploadSend(s, file_urls, net) ==
  IF file_urls = <<>>
  THEN Alert(s, "warning", "Please provide at least one URL.")
  ELSE UploadResult(Issue(s, "upload", net, UploadPayload(s, file_urls)),
                    ResultOf(s, net))

upload_urls_mode(s, ev, net) ==
  IF ev.kind # "process_urls" THEN s
  ELSE UploadSend(s, StripLines(ev.lines), net)

\* data.get(key, {})
GetOrEmpty(data, key) ==
  IF key \in DOMAIN data.d THEN data.d[key] ELSE Dict(<<>>)

\* isinstance(parsed, dict) and parsed.get("processed_files")
HasProcessedFiles(parsed) ==
  IsDict(parsed) /\ Truthy(Get(parsed, "processed_files"))

\* if not (...): parsed = _normalize_nested_json(data.get("answer", {}))
ParsedFromAnswer(data, parsed) ==
  IF HasProcessedFiles(parsed) THEN parsed
  ELSE _normalize_nested_json(GetOrEmpty(data, "answer"))

\* if not (...): parsed = _normalize_nested_json(data)
ParsedFromData(data, parsed) ==
  IF HasProcessedFiles(parsed) THEN parsed
  ELSE _normalize_nested_json(data)

\* parsed, from data["response"], else data["answer"], else data
UploadParsed(data) ==
  ParsedFromData(data,
    ParsedFromAnswer(data,
      _normalize_nested_json(GetOrEmpty(data, "response"))))

\* sum(1 for f in processed_files if f.get("success"))
RECURSIVE CountSuccess(_)
CountSuccess(processed_files) ==
  IF processed_files = <<>> THEN 0
  ELSE (IF Truthy(Get(Head(processed_files), "success")) THEN 1 ELSE 0)
       + CountSuccess(Tail(processed_files))

\* parsed.get("total_processed", len(processed_files))
total_processed(parsed) ==
  IF "total_processed" \in DOMAIN parsed.d THEN parsed.d["total_processed"]
  ELSE Num(Len(parsed.d["processed_files"].l))

\* parsed.get("total_successful", sum(...))
total_successful(parsed) ==
  IF "total_successful" \in DOMAIN parsed.d THEN parsed.d["total_successful"]
  ELSE Num(CountSuccess(parsed.d["processed_files"].l))

\* what the three metrics show; the rate as f"{rate:.1f}" prints it, in
\* tenths of a percent (no quotient of the inputs lies half way between two
\* tenths, so the rounding is to the nearest)
Metrics(successful, total, tenths) ==
  [shown |-> TRUE, successful |-> successful, total |-> total,
   tenths |-> tenths]

\* the raw text area is shown in place of the metrics
NoMetrics == [shown |-> FALSE]

\* rate = (total_successful / total_processed * 100) if total_processed else 0
\* int / None and None / int raise TypeError
rate(successful, total) ==
  IF ~Truthy(total) THEN Metrics(successful, total, 0)
  ELSE IF successful.t # "num" \/ total.t # "num" THEN Raised("TypeError")
  ELSE Metrics(successful, total,
               (2000 * successful.n + total.n) \div (2 * total.n))

\* the results block of upload_urls_mode for the parsed reply
UploadMetrics(parsed) ==
  IF HasProcessedFiles(parsed)
  THEN rate(total_successful(parsed), total_processed(parsed))
  ELSE NoMetrics

(***************************************************************************)
(* post_consultation_mode                                                  *)
(***************************************************************************)
PostRenderHistory(s, ev, net) ==
  IF /\ ev.kind = "mcq"
     /\ ev.idx \in 1..Len(s.post_history)
     /\ s.post_history[ev.idx].role = "assistant"
     /\ McqHandled(s.post_history[ev.idx].content)
  THEN McqSubmitClick(s, s.post_history[ev.idx].content,
                      s.post_ctx.slot_id, ev.pos, net)
  ELSE s

PostResult(s, result) ==
  IF result.success
  THEN Rerun([s EXCEPT !.post_history = AppendTurn(@, ReplyTurn(result))])
  ELSE Alert(s, "error", result.error)

PostPayload(s, user_msg) ==
  Ids(s) @@ ("slot_id" :> s.post_ctx.slot_id)
  @@ ("post_consultation_text" :> s.post_ctx.post_text)
  @@ ("input" :> Str(user_msg))

PostSend(s, payload, net) ==
  PostResult(Issue(s, "post_text", net, payload), ResultOf(s, net))

PostChatInput(s, user_msg, net) ==
  IF user_msg = "" THEN s
  ELSE PostSend([s EXCEPT !.post_history =
                            AppendTurn(@, Turn("user", Str(user_msg)))],
                PostPayload(s, user_msg), net)

\* the chat_input at the end of the post-consultation page
PostFreeText(s, ev, net) == PostChatInput(s, ChatInput(ev, "post_text"), net)

\* mutation of PostInputsMissing: the notes are not stripped
PostInputsMissing_mut(slot_id, post_text) == slot_id = "" \/ post_text = ""

\* not slot_id or not post_text.strip()
PostInputsMissing(slot_id, post_text) == slot_id = "" \/ Strip(post_text) = ""

PostInitHistory(s) ==
  IF Has(s, "post_history") THEN s
  ELSE [s EXCEPT !.keys = @ \cup {"post_history"}, !.post_history = <<>>]

PostInitCtx(s) ==
  IF Has(s, "post_ctx") THEN s
  ELSE [s EXCEPT !.keys = @ \cup {"post_ctx"}, !.post_ctx = None]

\* the context is stored as typed and the log is started afresh
PostSaveContext(s, ev) ==
  Alert([s EXCEPT !.post_ctx = [slot_id |-> ev.slot_id,
                                post_text |-> ev.notes],
                  !.post_history = <<>>],
        "success",
        "Context saved. You can now chat to generate or refine the treatment plan.")

\* after the history loop, unless a picker ended the run with st.rerun()
PostAfterHistory(s, ev, net) ==
  IF s.rerun THEN s ELSE PostFreeText(s, ev, net)

\* the chat below the form, shown once a context is saved
PostChat(s, ev, net) ==
  IF s.post_ctx = None THEN s
  ELSE PostAfterHistory(PostRenderHistory(s, ev, net), ev, net)

\* the Process button of the form; the run returns after the warning
PostForm(s, ev, net) ==
  IF ev.kind # "post_process" THEN PostChat(s, ev, net)
  ELSE IF PostInputsMissing(ev.slot_id, ev.notes)
  THEN Alert(s, "warning",
             "Please enter both Slot ID and Post Consultation Text.")
  ELSE PostChat(PostSaveContext(s, ev), ev, net)

post_consultation_mode(s, ev, net) ==
  PostForm(PostInitCtx(PostInitHistory(s)), ev, net)

(***************************************************************************)
(* main: one script run, and the runs st.rerun() chains after it           *)
(***************************************************************************)
Modes == {"Ask", "Booking Chat", "Upload", "Post"}

InitMode(s) ==
  IF Has(s, "dep_selected_mode") THEN s
  ELSE [s EXCEPT !.keys = @ \cup {"dep_selected_mode"},
                 !.dep_selected_mode = "Ask"]

\* a mode button stores the mode it names
ClickMode(s, ev) ==
  IF ev.kind = "mode" THEN [s EXCEPT !.dep_selected_mode = ev.mode] ELSE s

Dispatch(s, ev, net) ==
  IF ev.kind = "new_session" THEN reset_session_ids_and_state(s)
  ELSE CASE s.dep_selected_mode = "Ask" -> ask_mode(s, ev, net)
         [] s.dep_selected_mode = "Booking Chat" -> booking_chat_mode(s, ev, net)
         [] s.dep_selected_mode = "Upload" -> upload_urls_mode(s, ev, net)
         [] s.dep_selected_mode = "Post" -> post_consultation_mode(s, ev, net)

main(s, ev, net) ==
  Dispatch(ClickMode(InitMode(ensure_ids_once(s)), ev), ev, net)

RECURSIVE Interaction(_, _, _)
\* st.rerun() starts a run that no widget triggered
AfterRun(r, net) ==
  IF r.rerun THEN Interaction([r EXCEPT !.rerun = FALSE], NoEvent, net) ELSE r

Interaction(s, ev, net) == AfterRun(main(s, ev, net), net)

(***************************************************************************)
(* What the user can type                                                  *)
(***************************************************************************)
Prompts == {"hi"}
SlotInputs == {"", "slot_1", "slot_2"}
NotesInputs == {"  ", "notes"}
UrlInputs == {<<>>, <<"  ", " ">>, <<"u1">>, <<" u2 ", "  ", "u1", "u3  ">>}

(***************************************************************************)
(* Initial state: the session after the first page load                    *)
(***************************************************************************)
BlankSession ==
  [keys |-> {}, session_id |-> 0, user_id |-> 0,
   ask_history |-> <<>>, booking_history |-> <<>>, post_history |-> <<>>,
   post_ctx |-> None, current_slot_id |-> "", dep_selected_mode |-> "",
   uuids |-> 0, calls |-> <<>>, alerts |-> {}, rerun |-> FALSE]

FirstLoad == Interaction(BlankSession, NoEvent, ServerDown)

InitFrom(r) ==
  /\ keys = r.keys
  /\ session_id = r.session_id
  /\ user_id = r.user_id
  /\ ask_history = r.ask_history
  /\ booking_history = r.booking_history
  /\ post_history = r.post_history
  /\ post_ctx = r.post_ctx
  /\ current_slot_id = r.current_slot_id
  /\ dep_selected_mode = r.dep_selected_mode
  /\ uuids = r.uuids
  /\ calls = <<>>
  /\ alerts = {}

\* no function is applied on its own while the console runs
Init == InitFrom(FirstLoad) /\ arg = None /\ ret = None

TotalTurns(s) ==
  Len(s.ask_history) + Len(s.booking_history) + Len(s.post_history)

\* The server behaviours an interaction can meet, one per call it reaches.
\* A failed call never ends the run, so the run against a server that is
\* down reaches every call site the interaction has.
Nets(ev) ==
  [1..Len(Interaction(Session, ev, ServerDown).calls) -> ServerBehaviours]

\* the session becomes the result r of an interaction
Commit(r) ==
  /\ TotalTurns(r) <= MaxTurns
  /\ keys' = r.keys
  /\ session_id' = r.session_id
  /\ user_id' = r.user_id
  /\ ask_history' = r.ask_history
  /\ booking_history' = r.booking_history
  /\ post_history' = r.post_history
  /\ post_ctx' = r.post_ctx
  /\ current_slot_id' = r.current_slot_id
  /\ dep_selected_mode' = r.dep_selected_mode
  /\ uuids' = r.uuids
  /\ calls' = r.calls
  /\ alerts' = r.alerts
  /\ UNCHANGED <<arg, ret>>

\* the interaction ev, served by net, takes the session to its result
Do(ev, net) == Commit(Interaction(Session, ev, net))

\* the interaction ev, with whatever the server does at each call
Interact(ev) == \E net \in Nets(ev) : Do(ev, net)

(***************************************************************************)
(* Actions: one per widget of the page                                     *)
(***************************************************************************)
\* the four mode buttons
SwitchMode ==
  \E m \in Modes : Interact([NoEvent EXCEPT !.kind = "mode", !.mode = m])

\* the New Session button
NewSession ==
  /\ uuids < 2 * (MaxResets + 1)
  /\ Interact([NoEvent EXCEPT !.kind = "new_session"])

\* chat_input of the Ask page
AskSubmit ==
  /\ dep_selected_mode = "Ask"
  /\ \E p \in Prompts :
       Interact([NoEvent EXCEPT !.kind = "ask_text", !.text = p])

\* the Set Slot ID button of the Booking page
SetSlotId ==
  /\ dep_selected_mode = "Booking Chat"
  /\ \E sl \in SlotInputs :
       Interact([NoEvent EXCEPT !.kind = "set_slot", !.slot_id = sl])

BookingSlotSet == "current_slot_id" \in keys /\ current_slot_id # ""

\* chat_input of the Booking page
BookingSubmit ==
  /\ dep_selected_mode = "Booking Chat"
  /\ BookingSlotSet
  /\ show_free_input(booking_history)
  /\ \E p \in Prompts :
       Interact([NoEvent EXCEPT !.kind = "booking_text", !.text = p])

\* the indices of the turns of a log that render an MCQ picker
Pickers(history) ==
  {i \in 1..Len(history) :
     history[i].role = "assistant" /\ McqHandled(history[i].content)}

\* the log whose history loop the current page renders with pickers
RenderedLog ==
  IF dep_selected_mode = "Booking Chat" /\ BookingSlotSet /\ booking_history # <<>>
  THEN booking_history
  ELSE IF dep_selected_mode = "Post" /\ "post_ctx" \in keys /\ post_ctx # None
  THEN post_history
  ELSE <<>>

\* Submit Answer of a picker of the Booking or Post page
McqSubmit ==
  \E i \in Pickers(RenderedLog) :
    \E pos \in 0..Len(McqOptions(RenderedLog[i].content)) :
      Interact([NoEvent EXCEPT !.kind = "mcq", !.idx = i, !.pos = pos])

\* the Process URLs button of the Upload page
ProcessUrls ==
  /\ dep_selected_mode = "Upload"
  /\ \E ls \in UrlInputs :
       Interact([NoEvent EXCEPT !.kind = "process_urls", !.lines = ls])

\* the Process button of the Post Consultation page
PostProcess ==
  /\ dep_selected_mode = "Post"
  /\ \E sl \in SlotInputs, n \in NotesInputs :
       Interact([NoEvent EXCEPT !.kind = "post_process", !.slot_id = sl,
                                !.notes = n])

\* chat_input of the Post Consultation page
PostSubmit ==
  /\ dep_selected_mode = "Post"
  /\ "post_ctx" \in keys /\ post_ctx # None
  /\ \E p \in Prompts :
       Interact([NoEvent EXCEPT !.kind = "post_text", !.text = p])

\* any other widget change (a radio selection, an edited text field, a click
\* on a widget the triggered run no longer renders): a run without a trigger
Rerender == Interact(NoEvent)

Next ==
  \/ SwitchMode
  \/ NewSession
  \/ AskSubmit
  \/ SetSlotId
  \/ BookingSubmit
  \/ McqSubmit
  \/ ProcessUrls
  \/ PostProcess
  \/ PostSubmit
  \/ Rerender

Spec == Init /\ [][Next]_vars

(***************************************************************************)
(* The functions on their own: each is applied once to a value drawn from  *)
(* a bounded family of server replies and network behaviours.              *)
(***************************************************************************)
MaxFields == 3
MaxFiles == 5
MaxNesting == 4

\* a field of a reply with one of the values a server may give it
FieldValues ==
  { <<"answer", Str("hello")>>, <<"answer", Str("")>>,
    <<"response", Str("text")>>, <<"response", List(<<>>)>>,
    <<"status", Str("END")>>,
    <<"assessment_progress", Str("in_progress")>>,
    <<"assessment_progress", Str("Complete")>>,
    <<"question_type", Str("mcq")>>,
    <<"mcq_question", Str("Pick one")>>,
    <<"mcq_options", List(<<Str("A"), Str("A")>>)>>,
    <<"mcq_options", List(<<Str("A"), Str("B")>>)>>,
    <<"mcq_options", List(<<>>)>>,
    <<"summary", Str("s")>>,
    <<"sources", Null>>, <<"sources", List(<<Str("src")>>)>> }

FieldsOf(pairs) == {p[1] : p \in pairs}

\* the mapping that gives each field of pairs its value
MappingOf(pairs) ==
  Dict([f \in FieldsOf(pairs) |-> (CHOOSE p \in pairs : p[1] = f)[2]])

\* the reply mappings of at most MaxFields fields
Mappings ==
  { MappingOf(pairs) :
      pairs \in { ps \in SUBSET FieldValues :
                    /\ Cardinality(ps) <= MaxFields
                    /\ Cardinality(FieldsOf(ps)) = Cardinality(ps) } }

\* a reply with a field outside the projection list
ReplySummary == Dict(("answer" :> Str("hello")) @@ ("summary" :> Str("s")))

\* a server that encodes its own output once more
Encodings(v) ==
  { json_dumps(v), Dict("response" :> json_dumps(v)),
    Dict("answer" :> json_dumps(v)) }

RECURSIVE Nested(_)
Nested(depth) ==
  IF depth = 0 THEN {ReplyAnswer, ReplyMcq, ReplySummary}
  ELSE UNION {Encodings(v) : v \in Nested(depth - 1)}

\* replies that are no mapping
Scalars == {Str("plain"), Str("{not json"), Num(7), List(<<Str("a")>>)}

JsonInputs == Mappings \cup UNION {Nested(d) : d \in 0..MaxNesting} \cup Scalars

\* every answer of the network to one POST
NetInputs ==
  ServerBehaviours
  \cup {[kind |-> "http", status |-> 404, body |-> Null, text |-> "missing"]}
  \cup {[kind |-> "http", status |-> 200, body |-> NotJson,
         text |-> "Expecting value", raises |-> c] :
           c \in {"RequestException", "ValueError"}}

\* an entry of processed_files
ProcessedFile(success) ==
  Dict(("file_url" :> Str("u1")) @@ ("success" :> Bool(success)))

\* n processed files, the first k of them successful; the last of those that
\* failed has no success field
ProcessedFiles(n, k) ==
  [i \in 1..n |->
     IF i = n /\ k < n THEN Dict("file_url" :> Str("u1"))
     ELSE ProcessedFile(i <= k)]

\* the totals a server may send along: none, a count, or null
TotalsSent ==
  {{}} \cup {{<<"total_processed", v>>} : v \in {Num(0), Num(4), Null}}

SuccessfulSent ==
  {{}} \cup {{<<"total_successful", v>>} : v \in {Num(0), Num(2), Null}}

\* the results a file-processing server may report
UploadReports ==
  { MappingOf({<<"processed_files", List(ProcessedFiles(n, k))>>}
              \cup tp \cup ts) :
      n \in 0..MaxFiles, k \in 0..MaxFiles, tp \in TotalsSent,
      ts \in SuccessfulSent }

\* the report as the reply itself, or as its response or answer, encoded
\* or not
UploadReplies(report) ==
  { report, Dict("response" :> json_dumps(report)),
    Dict("answer" :> report) }

FnInputs ==
  {[kind |-> "reply", data |-> v] : v \in JsonInputs}
  \cup {[kind |-> "net", net |-> b] : b \in NetInputs}
  \cup UNION { {[kind |-> "upload", report |-> r, data |-> v] :
                   v \in UploadReplies(r)} : r \in UploadReports }

FnInit == InitFrom(FirstLoad) /\ arg \in FnInputs /\ ret = None

\* the function fn returned value; the session is not involved
Return(fn, value) ==
  /\ ret = None
  /\ ret' = [fn |-> fn, value |-> value]
  /\ UNCHANGED << keys, session_id, user_id, ask_history, booking_history,
                  post_history, post_ctx, current_slot_id, dep_selected_mode,
                  uuids, calls, alerts, arg >>

\* _normalize_nested_json(arg)
Normalize ==
  /\ arg.kind = "reply"
  /\ Return("_normalize_nested_json", _normalize_nested_json(arg.data))

\* _prepare_response_content(arg)
Prepare ==
  /\ arg.kind = "reply"
  /\ Return("_prepare_response_content", _prepare_response_content(arg.data))

\* the booking log that holds the reply arg and nothing else
ReplyLog(data) == <<ReplyTurn(Success(data))>>

\* show_free_input for a booking log whose only turn is the reply arg
ShowFreeInput ==
  /\ arg.kind = "reply"
  /\ Return("show_free_input", show_free_input(ReplyLog(arg.data)))

\* the payload sent by Submit Answer on the picker of the reply arg, with
\* the option at position pos chosen
SubmittedPayload(data, pos) ==
  McqSubmitClick([Session EXCEPT !.keys = @ \cup {"booking_history"},
                                 !.booking_history = ReplyLog(data)],
                 ReplyLog(data)[1].content, "slot_1", pos,
                 ServerDown).calls[1].payload

\* render_mcq_if_present for the reply arg, an option chosen and submitted
SubmitOption ==
  /\ arg.kind = "reply"
  /\ \E pos \in 1..Len(McqOptions(ReplyLog(arg.data)[1].content)) :
       Return("render_mcq_if_present",
              [pos |-> pos, payload |-> SubmittedPayload(arg.data, pos)])

\* make_api_request against the network behaviour arg
Request ==
  /\ arg.kind = "net"
  /\ Return("make_api_request", make_api_request(arg.net))

\* the results block of upload_urls_mode for the successful reply arg
ShowUploadResults ==
  /\ arg.kind = "upload"
  /\ Return("upload_urls_mode", UploadMetrics(UploadParsed(arg.data)))

FnNext ==
  \/ Normalize
  \/ Prepare
  \/ ShowFreeInput
  \/ SubmitOption
  \/ Request
  \/ ShowUploadResults

FnSpec == FnInit /\ [][FnNext]_vars

(***************************************************************************)
(* Vocabulary of the properties                                            *)
(***************************************************************************)
Logs == {"ask", "booking", "post"}

History(log) ==
  CASE log = "ask" -> ask_history
    [] log = "booking" -> booking_history
    [] log = "post" -> post_history

\* the conversation log a call is made on behalf of
CallLog(c) ==
  CASE c.origin = "ask_text" -> "ask"
    [] c.origin \in {"booking_bootstrap", "booking_text"} -> "booking"
    [] c.origin = "post_text" -> "post"
    [] c.origin = "mcq" /\ c.mode = "Booking Chat" -> "booking"
    [] c.origin = "mcq" /\ c.mode = "Post" -> "post"
    [] c.origin = "mcq" /\ c.mode = "Ask" -> "ask"
    [] OTHER -> "upload"

FreeTextOrigins == {"ask_text", "booking_text", "post_text"}

IsPrefix(h1, h2) == Len(h1) <= Len(h2) /\ SubSeq(h2, 1, Len(h1)) = h1

\* the turns from last to first: the normalized content of the latest
\* assistant turn of a log, Null when the log has none
RECURSIVE LatestReply(_)
LatestReply(history) ==
  IF history = <<>> THEN Null
  ELSE IF history[Len(history)].role = "assistant"
  THEN _normalize_nested_json(history[Len(history)].content)
  ELSE LatestReply(SubSeq(history, 1, Len(history) - 1))

FieldIsTerminal(parsed, field) ==
  /\ IsDict(parsed)
  /\ Get(parsed, field).t = "str"
  /\ Lower(Get(parsed, field).s) \in {"end", "complete", "completed"}

\* the latest reply of the log reports the end of the conversation
LogTerminal(history) ==
  \/ FieldIsTerminal(LatestReply(history), "assessment_progress")
  \/ FieldIsTerminal(LatestReply(history), "status")

\* the last turn of the log is an assistant turn that poses an MCQ
McqPending(history) ==
  /\ history # <<>>
  /\ history[Len(history)].role = "assistant"
  /\ LET parsed == _normalize_nested_json(history[Len(history)].content)
     IN /\ IsDict(parsed)
        /\ Get(parsed, "question_type") = Str("mcq")
        /\ IsList(Get(parsed, "mcq_options"))
        /\ Get(parsed, "mcq_options").l # <<>>

IsReset == uuids' # uuids

(***************************************************************************)
(* C1 (as claimed): once the latest reply of a log is terminal, no call is *)
(* made on behalf of that log until the session is reset.                  *)
(***************************************************************************)
C1_TerminalLock ==
  [][\A log \in Logs :
       (LogTerminal(History(log)) /\ ~IsReset)
         => \A i \in 1..Len(calls') : CallLog(calls'[i]) # log]_vars

(***************************************************************************)
(* C2 (as claimed): while the last assistant turn of a log poses an MCQ    *)
(* with options, no free text is accepted for that log.  Every accepted    *)
(* free text is appended as a user turn and sent, so it is enough that no  *)
(* request carrying free text is sent for that log.                        *)
(***************************************************************************)
C2_McqGating ==
  [][\A log \in Logs :
       McqPending(History(log))
         => \A i \in 1..Len(calls') :
              ~(calls'[i].origin \in FreeTextOrigins
                /\ CallLog(calls'[i]) = log)]_vars

(***************************************************************************)
(* C3 (as claimed): a failed call made on behalf of a log appends an       *)
(* assistant turn containing the error text to that log and leaves the     *)
(* log's input state (free text accepted or MCQ selection pending) as it   *)
(* was before the call.                                                    *)
(***************************************************************************)
ErrorTexts == {make_api_request(b).error : b \in ServerBehaviours} \ {""}

IsErrorTurn(turn) ==
  /\ turn.role = "assistant"
  /\ \E e \in ErrorTexts : turn.content \in {Str(e), Str("Error: " \o e)}

InputState(history) == IF McqPending(history) THEN "mcq" ELSE "free_text"

C3_FailureKeepsState ==
  [][\A log \in Logs : \A i \in 1..Len(calls') :
       (~calls'[i].success /\ CallLog(calls'[i]) = log)
         => /\ \E k \in (Len(History(log)) + 1)..Len(History(log)') :
                 IsErrorTurn(History(log)'[k])
            /\ InputState(History(log)') = InputState(History(log))]_vars

(***************************************************************************)
(* C4 (as claimed): every payload carries the session's session_id and     *)
(* user_id; every call made from the booking or the post page carries      *)
(* slot_id; every call made from the post page, MCQ submissions included,  *)
(* carries post_consultation_text equal to the captured notes.             *)
(***************************************************************************)
C4_PayloadContext ==
  \A i \in 1..Len(calls) :
    LET c == calls[i]
    IN /\ {"session_id", "user_id"} \subseteq DOMAIN c.payload
       /\ c.payload["session_id"] = session_id
       /\ c.payload["user_id"] = user_id
       /\ c.mode \in {"Booking Chat", "Post"} => "slot_id" \in DOMAIN c.payload
       /\ c.mode = "Post"
            => /\ "post_consultation_text" \in DOMAIN c.payload
               /\ c.payload["post_consultation_text"] = post_ctx.post_text

(***************************************************************************)
(* C5 (as claimed): an MCQ submission appends a user turn holding the      *)
(* selected option's text to the log of the page it is made from, issues   *)
(* one call, and on success appends the assistant's reply to the same log  *)
(* directly after the user turn.                                           *)
(***************************************************************************)
C5_McqSubmitAppends ==
  [][\A log \in Logs : \A i \in 1..Len(calls') :
       (calls'[i].origin = "mcq" /\ CallLog(calls'[i]) = log)
         => LET h == History(log)
                user_turn == Turn("user", calls'[i].payload["input"])
            IN /\ Len(calls') = 1
               /\ IsPrefix(h \o <<user_turn>>, History(log)')
               /\ IF calls'[i].success
                  THEN /\ Len(History(log)') = Len(h) + 2
                       /\ History(log)'[Len(h) + 2].role = "assistant"
                  ELSE Len(History(log)') = Len(h) + 1]_vars

(***************************************************************************)
(* C7 (as claimed): one user interaction causes at most one call to        *)
(* make_api_request.                                                       *)
(***************************************************************************)
C7_OneCallPerAction == Len(calls) <= 1

(***************************************************************************)
(* C6: an interaction that runs the booking page with a slot id set and    *)
(* an empty booking log issues exactly one automatic call, as the first    *)
(* call of the interaction, with payload exactly {session_id, user_id,     *)
(* slot_id} and no input key; free text for that log is sent only after    *)
(* it.                                                                     *)
(***************************************************************************)
IsBootstrap(c) == c.origin = "booking_bootstrap"

C6_BookingBootstrap ==
  [][/\ (dep_selected_mode' = "Booking Chat" /\ BookingSlotSet'
         /\ booking_history = <<>>)
        => /\ calls' # <<>>
           /\ IsBootstrap(calls'[1])
           /\ \A i \in 2..Len(calls') : ~IsBootstrap(calls'[i])
     /\ \A i \in 1..Len(calls') :
          IsBootstrap(calls'[i])
            => /\ DOMAIN calls'[i].payload = {"session_id", "user_id", "slot_id"}
               /\ calls'[i].payload["session_id"] = session_id'
               /\ calls'[i].payload["user_id"] = user_id'
               /\ calls'[i].payload["slot_id"] = current_slot_id'
               /\ booking_history = <<>>
     /\ \A i \in 1..Len(calls') :
          (calls'[i].origin = "booking_text" /\ booking_history = <<>>)
            => i > 1 /\ IsBootstrap(calls'[1])]_vars

\* a free text sent on an empty booking log, after the automatic call
C6_Witness ==
  /\ Len(calls) = 2
  /\ IsBootstrap(calls[1])
  /\ calls[2].origin = "booking_text"
  /\ "input" \notin DOMAIN calls[1].payload

(***************************************************************************)
(* C8 (as claimed): every interaction other than the session reset leaves  *)
(* each log with its former value as a prefix.                             *)
(***************************************************************************)
C8_AppendOnly ==
  [][~IsReset => \A log \in Logs : IsPrefix(History(log), History(log)')]_vars

ContextSaved ==
  [level |-> "success",
   text |-> "Context saved. You can now chat to generate or refine the treatment plan."]
     \in alerts

(***************************************************************************)
(* C8 (amended): every interaction other than the session reset leaves     *)
(* ask_history and booking_history with their former value as a prefix;    *)
(* it does the same for post_history unless it is the Process button       *)
(* saving a new post-consultation context, which empties post_history.     *)
(***************************************************************************)
C8_AppendOnlyButNewContext ==
  [][~IsReset
       => /\ IsPrefix(ask_history, ask_history')
          /\ IsPrefix(booking_history, booking_history')
          /\ IF ContextSaved' THEN post_history' = <<>>
             ELSE IsPrefix(post_history, post_history')]_vars

\* a log that grew by a call and its reply
C8_Witness ==
  /\ \E log \in Logs : Len(History(log)) >= 2
  /\ calls # <<>>
  /\ calls[Len(calls)].success

(***************************************************************************)
(* C9: after reset_session_ids_and_state all three logs are empty, the     *)
(* post-consultation context and the booking slot id are cleared, and      *)
(* session_id and user_id are new values, different from the ones before   *)
(* and from every value generated earlier.                                 *)
(***************************************************************************)
C9_SessionReset ==
  [][IsReset
       => /\ ask_history' = <<>>
          /\ booking_history' = <<>>
          /\ post_history' = <<>>
          /\ post_ctx' = None
          /\ "current_slot_id" \notin keys'
          /\ current_slot_id' = ""
          /\ session_id' # session_id /\ session_id' > uuids
          /\ user_id' # user_id /\ user_id' > uuids
          /\ session_id' # user_id'
          /\ calls' = <<>>]_vars

\* a session that was reset
C9_Witness == uuids > 2 /\ session_id > 2 /\ user_id > 2

(***************************************************************************)
(* C10: Process with a slot id and non-blank notes sets post_ctx to        *)
(* {slot_id, post_text} and calls nothing; Process with either missing     *)
(* leaves post_ctx as it was and shows a warning; and no call is made      *)
(* from the post page unless post_ctx was set before the interaction.      *)
(***************************************************************************)
BlankTexts == {"", " ", "  "}

\* the Process button pressed with these inputs
PressProcess(slot_id, notes) ==
  /\ dep_selected_mode = "Post"
  /\ LET ev == [NoEvent EXCEPT !.kind = "post_process", !.slot_id = slot_id,
                               !.notes = notes]
     IN \E net \in Nets(ev) : Do(ev, net)

ProcessWarning ==
  [level |-> "warning",
   text |-> "Please enter both Slot ID and Post Consultation Text."]

C10_PostGate ==
  [][/\ \A sl \in SlotInputs, n \in NotesInputs :
          PressProcess(sl, n)
            => /\ calls' = <<>>
               /\ IF sl # "" /\ n \notin BlankTexts
                  THEN post_ctx' = [slot_id |-> sl, post_text |-> n]
                  ELSE post_ctx' = post_ctx /\ ProcessWarning \in alerts'
     /\ \A i \in 1..Len(calls') :
          calls'[i].mode = "Post"
            => "post_ctx" \in keys /\ post_ctx # None /\ post_ctx' = post_ctx]_vars

\* the context was just saved: nothing was sent, the chat is empty
C10_Witness ==
  /\ ContextSaved
  /\ post_ctx # None
  /\ calls = <<>>
  /\ dep_selected_mode = "Post"

(***************************************************************************)
(* C13 (as claimed): every failed call of an interaction is shown to the   *)
(* user as an error, on the conversation or as an alert.  (Each inline     *)
(* error of the pages is written together with an st.error alert.)         *)
(***************************************************************************)
C13_FailureVisible ==
  \A i \in 1..Len(calls) :
    ~calls[i].success => \E a \in alerts : a.level = "error"

(***************************************************************************)
(* C14 (as claimed): while the bootstrap call of the current slot has      *)
(* failed (a slot is set and the booking log is still empty), an           *)
(* interaction that does not ask for it again (a rerender, free text, a    *)
(* mode button) sends no bootstrap call.                                   *)
(***************************************************************************)
C14_NoAutoRetry ==
  [][(/\ BookingSlotSet
      /\ booking_history = <<>>
      /\ (Rerender \/ BookingSubmit \/ SwitchMode))
       => \A i \in 1..Len(calls') : calls'[i].origin # "booking_bootstrap"]_vars

(***************************************************************************)
(* C15: every interaction other than the New Session button leaves         *)
(* session_id and user_id as they are, and every call carries the pair     *)
(* the session holds.                                                      *)
(***************************************************************************)
C15_IdsFixed ==
  [][/\ ~NewSession => session_id' = session_id /\ user_id' = user_id
     /\ \A i \in 1..Len(calls') :
          /\ calls'[i].payload["session_id"] = session_id'
          /\ calls'[i].payload["user_id"] = user_id']_vars

\* a call made after a reset, carrying the regenerated pair
C15_Witness ==
  /\ uuids > 2
  /\ calls # <<>>
  /\ calls[1].payload["session_id"] = session_id
  /\ session_id > 2

\* the Process URLs button pressed with these lines in the text area
PressProcessUrls(lines) ==
  /\ dep_selected_mode = "Upload"
  /\ LET ev == [NoEvent EXCEPT !.kind = "process_urls", !.lines = lines]
     IN \E net \in Nets(ev) : Do(ev, net)

UrlWarning == [level |-> "warning", text |-> "Please provide at least one URL."]

\* the lines that are not blank, in their order
NonBlank(lines) == SelectSeq(lines, LAMBDA u : u \notin BlankTexts)

(***************************************************************************)
(* C21: Process URLs with only blank lines sends nothing and shows a       *)
(* warning; otherwise exactly one request is sent, and its file_urls are   *)
(* the non-blank lines, trimmed, in their original order.                  *)
(***************************************************************************)
C21_UploadValidation ==
  [][\A lines \in UrlInputs :
       PressProcessUrls(lines)
         => IF NonBlank(lines) = <<>>
            THEN calls' = <<>> /\ UrlWarning \in alerts'
            ELSE /\ Len(calls') = 1
                 /\ DOMAIN calls'[1].payload
                      = {"session_id", "user_id", "file_urls"}
                 /\ calls'[1].payload["file_urls"]
                      = [i \in 1..Len(NonBlank(lines)) |->
                           Strip(NonBlank(lines)[i])]]_vars

\* three URLs were sent, trimmed, without the blank line between them
C21_Witness ==
  /\ dep_selected_mode = "Upload"
  /\ Len(calls) = 1
  /\ calls[1].origin = "upload"
  /\ calls[1].payload["file_urls"] = <<"u2", "u1", "u3">>

(***************************************************************************)
(* Vocabulary of the properties of the functions on their own              *)
(***************************************************************************)
\* the function fn has been applied to arg and ret is what it returned
Returned(fn) == ret # None /\ ret.fn = fn

\* the reply arg as the pages read it back from the log
StoredReply == _normalize_nested_json(_prepare_response_content(arg.data))

(***************************************************************************)
(* C11 (as claimed): a booking log whose latest normalized reply has       *)
(* assessment_progress or status in {end, complete, completed}, in any     *)
(* letter case, is treated as terminal: the free-text box is not shown.    *)
(***************************************************************************)
C11_TerminalDetection ==
  Returned("show_free_input")
    => ((\/ FieldIsTerminal(StoredReply, "assessment_progress")
         \/ FieldIsTerminal(StoredReply, "status"))
        => ret.value = FALSE)

(***************************************************************************)
(* C12 (as claimed): for the option at position pos of mcq_options, the    *)
(* submitted payload has input and mcq_selected_option equal to that       *)
(* label, mcq_selected_index equal to pos counted from zero, and           *)
(* mcq_question equal to the question of the reply.                        *)
(***************************************************************************)
C12_McqPayload ==
  Returned("render_mcq_if_present")
    => /\ ret.value.payload["input"]
            = Get(StoredReply, "mcq_options").l[ret.value.pos]
       /\ ret.value.payload["mcq_selected_option"]
            = Get(StoredReply, "mcq_options").l[ret.value.pos]
       /\ ret.value.payload["mcq_selected_index"] = ret.value.pos - 1
       /\ Truthy(Get(StoredReply, "mcq_question"))
            => ret.value.payload["mcq_question"]
                 = Get(StoredReply, "mcq_question")

\* the fields _prepare_response_content projects
ProjectedFields ==
  {CanonicalItems[i] : i \in 1..Len(CanonicalItems)} \cup {"status", "response"}

\* the mapping dv without its field f
Without(dv, f) == Dict([g \in DOMAIN dv.d \ {f} |-> dv.d[g]])

(***************************************************************************)
(* C16 (as claimed): a projected field whose value is null, "", [] or {}   *)
(* can be left out of the mapping without changing what                    *)
(* _prepare_response_content returns.                                      *)
(***************************************************************************)
C16_EmptyAsAbsent ==
  (Returned("_prepare_response_content") /\ IsDict(arg.data))
    => \A f \in DOMAIN arg.data.d \cap ProjectedFields :
         IsEmptyValue(arg.data.d[f])
           => ret.value = _prepare_response_content(Without(arg.data, f))

\* the fields the renderers read from a stored reply
RenderedFields ==
  ProjectedFields \cup {"assessment_summary", "booking_summary", "summary"}

\* the stored turn content, parsed
StoredContent ==
  IF json_loads_ok(ret.value) THEN json_loads(ret.value) ELSE ret.value

(***************************************************************************)
(* C17 (as claimed): every non-empty field of a reply mapping that the     *)
(* renderers read is in the stored turn content with the same value.       *)
(***************************************************************************)
C17_NothingLost ==
  (Returned("_prepare_response_content") /\ IsDict(arg.data))
    => \A f \in DOMAIN arg.data.d \cap RenderedFields :
         ~IsEmptyValue(arg.data.d[f])
           => /\ IsDict(StoredContent)
              /\ Get(StoredContent, f) = arg.data.d[f]

\* the third pass is the last, whatever it did
ThirdPass(second) ==
  IF second.continue THEN UnwrapPass(second.current).current
  ELSE second.current

SecondPass(first) ==
  IF first.continue THEN ThirdPass(UnwrapPass(first.current))
  ELSE first.current

(***************************************************************************)
(* C18: _normalize_nested_json returns, and what it returns is the value   *)
(* after the first pass that unwrapped nothing, or after the third pass    *)
(* when all three unwrapped.                                               *)
(***************************************************************************)
C18_UnwrapTermination ==
  Returned("_normalize_nested_json")
    => ret.value = SecondPass(UnwrapPass(arg.data))

\* three passes unwrapped and the value returned could be unwrapped again
C18_Witness ==
  /\ Returned("_normalize_nested_json")
  /\ UnwrapPass(arg.data).continue
  /\ ret.value # arg.data
  /\ UnwrapPass(ret.value).continue

\* _prepare_response_content followed by _normalize_nested_json
Pipeline(v) == _normalize_nested_json(_prepare_response_content(v))

\* a mapping of non-empty projected fields only
IsCanonical(v) ==
  /\ IsDict(v)
  /\ DOMAIN v.d \subseteq ProjectedFields
  /\ \A f \in DOMAIN v.d : ~IsEmptyValue(v.d[f])

(***************************************************************************)
(* C19 (as claimed): the pipeline returns a canonical mapping as it is,    *)
(* and applied to its own result it changes nothing.                       *)
(***************************************************************************)
C19_Idempotent ==
  Returned("_prepare_response_content")
    => /\ IsCanonical(arg.data) => Pipeline(arg.data) = arg.data
       /\ Pipeline(Pipeline(arg.data)) = Pipeline(arg.data)

\* the conversation log of a page
ModeLog(mode) ==
  CASE mode = "Ask" -> "ask"
    [] mode = "Booking Chat" -> "booking"
    [] mode = "Post" -> "post"
    [] OTHER -> "upload"

(***************************************************************************)
(* C23 (as claimed): short of a session reset, an interaction changes no   *)
(* conversation log but the one of the page it is performed on.            *)
(***************************************************************************)
C23_LogIndependence ==
  [][~IsReset
       => \A log \in Logs \ {ModeLog(dep_selected_mode')} :
            History(log)' = History(log)]_vars

(***************************************************************************)
(* C24 (as claimed): on the booking page, when the latest reply of the     *)
(* log is not terminal, the free-text box is withheld only if that reply   *)
(* presents an MCQ picker with at least one option; so some input is       *)
(* always available.                                                       *)
(***************************************************************************)
C24_NoStuckBooking ==
  (Returned("show_free_input") /\ ~LogTerminal(ReplyLog(arg.data)))
    => (ret.value = FALSE => McqPending(ReplyLog(arg.data)))

\* the interaction made an automatic call for the slot id
BootstrapFor(cs, slot_id) ==
  \E i \in 1..Len(cs) :
    IsBootstrap(cs[i]) /\ cs[i].payload["slot_id"] = slot_id

(***************************************************************************)
(* C25 (as claimed): when the slot id changes while the booking log is     *)
(* non-empty, the turns of the previous slot do not stay in the log        *)
(* unless the automatic call is made for the new slot.                     *)
(***************************************************************************)
C25_LogOfCurrentSlot ==
  [][(/\ ~IsReset
      /\ current_slot_id' # current_slot_id
      /\ booking_history # <<>>)
       => \/ ~IsPrefix(booking_history, booking_history')
          \/ BootstrapFor(calls', current_slot_id')]_vars

(***************************************************************************)
(* C26 (as claimed): a non-empty booking log starts with an assistant turn *)
(* that holds a reply of the server, never with a user turn or an error.   *)
(***************************************************************************)
C26_LogStartsWithServer ==
  booking_history # <<>>
    => /\ booking_history[1].role = "assistant"
       /\ ~IsErrorTurn(booking_history[1])

\* the total and the successful count of the report, as the claim reads them
ReportTotal ==
  IF "total_processed" \in DOMAIN arg.report.d
  THEN arg.report.d["total_processed"]
  ELSE Num(Len(arg.report.d["processed_files"].l))

ReportSuccessful ==
  IF "total_successful" \in DOMAIN arg.report.d
  THEN arg.report.d["total_successful"]
  ELSE Num(Cardinality({i \in DOMAIN arg.report.d["processed_files"].l :
                          Get(arg.report.d["processed_files"].l[i], "success")
                            = Bool(TRUE)}))

\* tenths is the tenth of a percent nearest to successful * 100 / total
NearestTenth(tenths, successful, total) ==
  /\ 2 * (tenths * total - 1000 * successful) <= total
  /\ 2 * (1000 * successful - tenths * total) <= total

(***************************************************************************)
(* C22 (as claimed): for a report whose totals, where the server sends     *)
(* them, are numbers, a success rate is displayed and nothing is raised;   *)
(* the rate is successful * 100 / total when total > 0 and 0 when total    *)
(* is 0.                                                                   *)
(***************************************************************************)
C22_SuccessRate ==
  (/\ Returned("upload_urls_mode")
   /\ ReportTotal.t = "num"
   /\ ReportSuccessful.t = "num")
    => /\ DOMAIN ret.value # {"raised"}
       /\ ret.value.shown
       /\ IF ReportTotal.n > 0
          THEN NearestTenth(ret.value.tenths, ReportSuccessful.n,
                            ReportTotal.n)
          ELSE ret.value.tenths = 0

====
